---- MODULE Spec2Model ----
(***************************************************************************)
(* A model of the Pulse event bus (src/src/core/pulse.js, event.js,        *)
(* middleware.js and the Listener of src/unnamed/part_004 that pulse.js    *)
(* drives through listener.call).                                          *)
(*                                                                         *)
(* Strings are tuples of one-character strings so that the pattern         *)
(* compiler can be followed character by character.  A regular expression  *)
(* is a tuple of tokens; Match decides whether the anchored expression     *)
(* accepts a string.                                                       *)
(***************************************************************************)
EXTENDS Integers, Sequences, FiniteSets, TLC

\* ------------------------------------------------------------------------
\* Strings and regular expressions
\* ------------------------------------------------------------------------

\* The characters [a-zA-Z0-9_-] of the topic grammar that the model uses.
SegChars ==
    {"a", "b", "c", "d", "e", "h", "l", "o", "p", "r", "x", "y", "0", "_", "-"}

\* The replacement text of pattern.replace(/\*/g, "placeholder").
Placeholder ==
    <<"p", "l", "a", "c", "e", "h", "o", "l", "d", "e", "r">>

Drop(s, k) == SubSeq(s, k + 1, Len(s))

EndsWith(s, suffix) ==
    /\ Len(s) >= Len(suffix)
    /\ SubSeq(s, Len(s) - Len(suffix) + 1, Len(s)) = suffix

\* s is one or more characters none of which is the separator: [^:]+
IsSeg(s) == Len(s) >= 1 /\ \A i \in 1..Len(s) : s[i] # ":"

\* s is :[^:]+(?::[^:]+)* , a non-empty run of ":segment".
RECURSIVE IsSegRun(_)
IsSegRun(s) ==
    /\ Len(s) >= 2
    /\ s[1] = ":"
    /\ \E k \in 2..Len(s) :
          /\ IsSeg(SubSeq(s, 2, k))
          /\ (k = Len(s) \/ IsSegRun(Drop(s, k)))

\* Regular-expression tokens produced by the two pattern compilers.
\*   <<"chr", c>>   the character c (also the escaped \: and \.)
\*   <<"any">>      .*            <<"anyc">>    (?:.*:)?
\*   <<"seg">>      [^:]+         <<"seg0">>    [^:]*
\*   <<"tail">>     (?::[^:]+(?::[^:]+)*)?
\*   <<"mid">>      :[^:]+(?::[^:]+)*
RECURSIVE Match(_, _)
Match(re, s) ==
    IF re = <<>> THEN s = <<>>
    ELSE LET t == Head(re)
             rest == Tail(re)
         IN  CASE t[1] = "chr" ->
                    /\ s # <<>>
                    /\ s[1] = t[2]
                    /\ Match(rest, Tail(s))
               [] t[1] = "any" ->
                    \E k \in 0..Len(s) : Match(rest, Drop(s, k))
               [] t[1] = "anyc" ->
                    \/ Match(rest, s)
                    \/ \E k \in 1..Len(s) : s[k] = ":" /\ Match(rest, Drop(s, k))
               [] t[1] = "seg" ->
                    \E k \in 1..Len(s) :
                        IsSeg(SubSeq(s, 1, k)) /\ Match(rest, Drop(s, k))
               [] t[1] = "seg0" ->
                    \E k \in 0..Len(s) :
                        /\ \A i \in 1..k : s[i] # ":"
                        /\ Match(rest, Drop(s, k))
               [] t[1] = "tail" ->
                    \/ Match(rest, s)
                    \/ \E k \in 2..Len(s) :
                          IsSegRun(SubSeq(s, 1, k)) /\ Match(rest, Drop(s, k))
               [] t[1] = "mid" ->
                    \E k \in 2..Len(s) :
                        IsSegRun(SubSeq(s, 1, k)) /\ Match(rest, Drop(s, k))
               [] OTHER -> FALSE

\* Pulse.isValidTopic: /^[a-zA-Z0-9_-]+(?::[a-zA-Z0-9_-]+)*$/
RECURSIVE isValidTopic(_)
isValidTopic(topic) ==
    /\ topic # <<>>
    /\ topic[1] \in SegChars
    /\ \/ Len(topic) = 1
       \/ topic[2] \in SegChars /\ isValidTopic(Tail(topic))
       \/ /\ topic[2] = ":"
          /\ Len(topic) >= 3
          /\ isValidTopic(Drop(topic, 2))

\* pattern.replace(/\*/g, "placeholder")
RECURSIVE ReplaceStars(_)
ReplaceStars(pattern) ==
    IF pattern = <<>> THEN <<>>
    ELSE (IF Head(pattern) = "*" THEN Placeholder ELSE <<Head(pattern)>>)
            \o ReplaceStars(Tail(pattern))

\* pattern[i] of a JavaScript string: undefined past the end.
CharAt(pattern, i) == IF i \in 1..Len(pattern) THEN pattern[i] ELSE "undefined"

\* The loop of Pulse.#compilePattern; i is the 1-based position of the
\* source's pattern[i - 1], re the expression built so far ("^" and "$" are
\* the anchoring that Match applies).
RECURSIVE CompileFrom(_, _, _)
CompileFrom(pattern, i, re) ==
    IF i > Len(pattern) THEN re
    ELSE IF pattern[i] = "*" /\ CharAt(pattern, i + 1) = "*" THEN
        IF i = 1 THEN
            IF i + 2 > Len(pattern) THEN
                CompileFrom(pattern, i + 2, re \o << <<"any">> >>)
            ELSE IF pattern[i + 2] = ":" THEN
                CompileFrom(pattern, i + 3, re \o << <<"anyc">> >>)
            ELSE CompileFrom(pattern, i + 2, re)
        ELSE
            LET cut == IF EndsWith(re, << <<"chr", ":">> >>)
                       THEN SubSeq(re, 1, Len(re) - 1) ELSE re
            IN  IF i + 2 > Len(pattern) THEN
                    CompileFrom(pattern, i + 2, cut \o << <<"tail">> >>)
                ELSE IF pattern[i + 2] = ":" THEN
                    CompileFrom(pattern, i + 2, cut \o << <<"mid">> >>)
                ELSE CompileFrom(pattern, i + 2, cut)
    ELSE IF pattern[i] = "*" THEN
        CompileFrom(pattern, i + 1, re \o << <<"seg">> >>)
    ELSE
        CompileFrom(pattern, i + 1, re \o << <<"chr", pattern[i]>> >>)

\* A compilation without the opening anchor: the expression may start at
\* any segment of the topic.
compilePatternUnanchored(pattern) == CompileFrom(pattern, 1, << <<"anyc">> >>)

\* Pulse.#compilePattern: the RegExp of a pattern; the cache holds for a
\* pattern exactly what compilation returns.
compilePattern(pattern) == CompileFrom(pattern, 1, <<>>)

\* A test against the compiled expression without its closing anchor.
matchPatternUnanchored(topic, pattern) ==
    Match(compilePattern(pattern) \o << <<"any">> >>, topic)

\* Pulse.#matchPattern
matchPattern(topic, pattern) == Match(compilePattern(pattern), topic)

\* The loop of Middleware.matches.
RECURSIVE MwCompileFrom(_, _, _)
MwCompileFrom(pattern, i, re) ==
    IF i > Len(pattern) THEN re
    ELSE IF pattern[i] = "*" /\ CharAt(pattern, i + 1) = "*" THEN
        MwCompileFrom(pattern, i + 2, re \o << <<"any">> >>)
    ELSE IF pattern[i] = "*" THEN
        MwCompileFrom(pattern, i + 1, re \o << <<"seg0">> >>)
    ELSE
        MwCompileFrom(pattern, i + 1, re \o << <<"chr", pattern[i]>> >>)

\* Middleware.matches
matches(pattern, topic) == Match(MwCompileFrom(pattern, 1, <<>>), topic)

\* ------------------------------------------------------------------------
\* Bounds and input sets
\* ------------------------------------------------------------------------

\* Listener objects constructed, middleware registered, emit calls made.
MaxListeners == 1
MaxMiddlewares == 1
MaxEmits == 2

\* The same for the specification of one emission over longer chains.
ChainListeners == 2
ChainMiddlewares == 2
ChainEmits == 1

\* The same for the specification of single calls.
CallListeners == 1
CallMiddlewares == 1
CallEmits == 1

\* SpecTimeout: the timeout race under every option of emit.
TimeoutListeners == 2
TimeoutMiddlewares == 1
TimeoutEmits == 1

\* SpecRegistry: listeners under overlapping patterns, one emission.
RegistryListeners == 2
RegistryEmits == 1

\* SpecMiddleware: middleware registered and destroyed around one emission.
MwListeners == 1
MwMiddlewares == 2
MwEmits == 1

\* SpecCache: patterns compiled by emit and by matchesPattern.  The ceiling
\* of the cache, 1000 patterns in the changelog, is scaled down to the
\* patterns of CachePatterns.
CacheListeners == 2
CacheEmits == 1
CacheCeiling == 2

\* SpecOrder: listeners that respond synchronously, one emission.
OrderListeners == 3
OrderEmits == 1

\* SpecEvent: chains that write and read the context of their event.
EventListeners == 2
EventMiddlewares == 1
EventEmits == 2

\* SpecMwMatch: one middleware pattern against one topic.
MwMatchListeners == 1
MwMatchMiddlewares == 1
MwMatchEmits == 1

\* SpecNext: middleware that call next() more than once.
NextListeners == 1
NextMiddlewares == 2
NextEmits == 1
MaxNextCalls == 2

\* SpecReject: registrations that pass and fail validation, one emission.
RejectListeners == 2
RejectEmits == 1

\* SpecMatch: one pattern against one topic.
MatchListeners == 1
MatchEmits == 1
MaxTopicSegments == 4
MaxPatternTokens == 3

S_a == <<"a">>
S_ab == <<"a", ":", "b">>
S_star == <<"*">>
S_astar == <<"a", ":", "*">>
S_bad == <<"a", " ", "b">>

\* Topics passed to emit (the last one fails the grammar).
Topics == {S_a, S_ab, S_bad}
\* Patterns passed to on and to use.
ListenerPatterns == {S_a, S_star}
MiddlewarePatterns == {S_a, S_astar}

\* The options argument of on: {once, autodestroy: {calls, timeout}};
\* calls = 0 and timeout = FALSE stand for an omitted field.
NoOptions == [once |-> FALSE, calls |-> 0, timeout |-> FALSE]
ListenerOptions ==
    { NoOptions,
      [once |-> TRUE,  calls |-> 0, timeout |-> FALSE],
      [once |-> FALSE, calls |-> 2, timeout |-> FALSE],
      [once |-> FALSE, calls |-> 0, timeout |-> TRUE] }

\* Patterns handed to on and to matchesPattern, more than the ceiling of
\* the cache.
CachePatterns == {S_a, S_star, S_astar, <<"*", "*">>}

\* Options that arm the autodestroy timer, alone or with a call threshold.
RegistryOptions ==
    { NoOptions,
      [once |-> FALSE, calls |-> 0, timeout |-> TRUE],
      [once |-> TRUE,  calls |-> 0, timeout |-> TRUE] }

\* Patterns handed to on, one of them outside the grammar, with options
\* that arm a timer, ask for once, or both.
RejectPatterns == {S_a, S_bad}
RejectOptions == ListenerOptions \cup RegistryOptions

\* What a listener callback's returned promise settles with: a JavaScript
\* value (named by its source text) or a rejection.
\* Segments joined with the separator.
RECURSIVE Join(_)
Join(segs) ==
    IF segs = <<>> THEN <<>>
    ELSE IF Len(segs) = 1 THEN segs[1]
    ELSE segs[1] \o <<":">> \o Join(Tail(segs))

\* Topics of SpecMatch: every topic of up to MaxTopicSegments segments, and
\* strings that fail the grammar: empty, with an empty segment, with an
\* illegal character, with a wildcard marker.
Segments == { <<"a">>, <<"x">>, <<"a", "x">> }
ValidTopics ==
    { Join(segs) : segs \in UNION { [1..n -> Segments] : n \in 1..MaxTopicSegments } }
InvalidTopics ==
    { <<>>, <<"a", ":", ":", "x">>, <<":", "a">>, <<"a", ":">>,
      <<"a", " ", "x">>, <<"a", ".", "x">>,
      <<"*">>, <<"a", ":", "*">>, <<"*", "*">>, <<"a", ":", "*", "*">>,
      <<"a", ":", "+", "+">> }
MatchTopics == ValidTopics \cup InvalidTopics

\* Patterns of SpecMatch: up to MaxPatternTokens tokens, each a literal
\* segment, *, ** or ++, and strings with an empty segment or an illegal
\* character.
Tokens == { <<"a">>, <<"x">>, <<"*">>, <<"*", "*">>, <<"+", "+">> }
TokenPatterns ==
    { Join(toks) : toks \in UNION { [1..n -> Tokens] : n \in 1..MaxPatternTokens } }
MatchPatterns ==
    TokenPatterns \cup { <<>>, <<"a", ":", ":", "x">>, <<":", "a">>,
                         <<"a", ":">>, <<"a", " ", "x">> }

\* The options of emit: timeout omitted, given as 0, given as 50 ms.
NoEmitOptions == [given |-> FALSE, timeout |-> 0]
EmitOptions ==
    { NoEmitOptions,
      [given |-> TRUE, timeout |-> 0],
      [given |-> TRUE, timeout |-> 50] }

\* PulseEvent.constructor: the default of options.timeout.
DefaultEventTimeout == 5000
\* emit: options?.timeout || 30000.
DefaultRaceTimeout == 30000

ReturnValues == {"undefined", "null", "0", "false", "", "ok"}
Outcomes == ReturnValues \cup {"reject"}
\* The outcomes tried where the returned value itself is not the subject.
ChainOutcomes == {"undefined", "ok", "reject"}

\* ------------------------------------------------------------------------
\* State
\* ------------------------------------------------------------------------

VARIABLES
    listeners,    \* pulse.listeners: Map pattern -> Set, in insertion order
    lobjs,        \* every Listener constructed: pattern, calls, limit, timer;
                  \* by records which operation took it out of the registry
    middlewares,  \* pulse.middlewares: ids of mobjs, in registration order
    mobjs,        \* every Middleware constructed
    emits,        \* every emit call: its Event, its promise, its tasks
    patternCache  \* #patternCache: the patterns that have a compiled RegExp

vars == <<listeners, lobjs, middlewares, mobjs, emits, patternCache>>

LIds == 1..Len(lobjs)
EIds == 1..Len(emits)
TIds(e) == 1..Len(emits[e].tasks)
FIds(e, k) == 1..Len(emits[e].tasks[k].fr)

Init ==
    /\ listeners = <<>>
    /\ lobjs = <<>>
    /\ middlewares = <<>>
    /\ mobjs = <<>>
    /\ emits = <<>>
    /\ patternCache = {}

\* ------------------------------------------------------------------------
\* Listener registry
\* ------------------------------------------------------------------------

RECURSIVE SeqRemove(_, _)
SeqRemove(s, x) ==
    IF s = <<>> THEN <<>>
    ELSE IF Head(s) = x THEN SeqRemove(Tail(s), x)
    ELSE <<Head(s)>> \o SeqRemove(Tail(s), x)

SeqHas(s, x) == \E i \in 1..Len(s) : s[i] = x

\* this.listeners.has(pattern) / .get(pattern): the bucket's position, 0 if none.
BucketOf(reg, pattern) ==
    IF \E i \in 1..Len(reg) : reg[i].pattern = pattern
    THEN CHOOSE i \in 1..Len(reg) : reg[i].pattern = pattern
    ELSE 0

InRegistry(reg, l) == \E i \in 1..Len(reg) : SeqHas(reg[i].set, l)

\* A Map that puts a new key first.
RegAddFirst(reg, pattern, l) ==
    LET b == BucketOf(reg, pattern)
    IN  IF b = 0
        THEN << [pattern |-> pattern, set |-> <<l>>, first |-> l] >> \o reg
        ELSE [reg EXCEPT ![b].set = Append(@, l)]

\* Pulse.on, lines 43-44: create the bucket if needed, add the listener.
\* (first notes the listener whose registration created the bucket.)
RegAdd(reg, pattern, l) ==
    LET b == BucketOf(reg, pattern)
    IN  IF b = 0
        THEN Append(reg, [pattern |-> pattern, set |-> <<l>>, first |-> l])
        ELSE [reg EXCEPT ![b].set = Append(@, l)]

\* A destroy that leaves the emptied bucket in the registry.
RegDestroyKeepsBucket(reg, pattern, l) ==
    LET b == BucketOf(reg, pattern)
    IN  IF b = 0 THEN reg ELSE [reg EXCEPT ![b].set = SeqRemove(@, l)]

\* A destroy that deletes the bucket found under this.pattern, whoever is
\* in it.
RegDestroyDropsBucket(reg, pattern, l) ==
    SelectSeq(reg, LAMBDA b : b.pattern # pattern)

\* Listener.destroy, registry part: delete this from the bucket found under
\* this.pattern, and delete the bucket when that leaves it empty.
RegDestroy(reg, pattern, l) ==
    LET b == BucketOf(reg, pattern)
    IN  IF b = 0 THEN reg
        ELSE LET set == SeqRemove(reg[b].set, l)
             IN  IF set = <<>>
                 THEN SubSeq(reg, 1, b - 1) \o SubSeq(reg, b + 1, Len(reg))
                 ELSE [reg EXCEPT ![b].set = set]

\* A destroy that leaves the autodestroy timer armed.
ObjDestroyKeepsTimer(objs, l, by) ==
    [objs EXCEPT ![l].by = IF @ = "none" /\ InRegistry(listeners, l)
                           THEN by ELSE @]

\* Listener.destroy, timer part: clearTimeout(this.timeout).  (by notes
\* the caller the first time the listener actually leaves the registry.)
ObjDestroy(objs, l, by) ==
    [objs EXCEPT ![l].timer = FALSE,
                 ![l].by = IF @ = "none" /\ InRegistry(listeners, l)
                           THEN by ELSE @]

\* Listener.constructor
NewListener(pattern, opt) ==
    [pattern |-> pattern,
     calls |-> 0,
     limit |-> IF opt.once THEN 1 ELSE opt.calls,
     timer |-> opt.timeout,
     by |-> "none"]

\* A registration that does not validate the pattern.
OnUnchecked(pattern, opt) ==
    /\ lobjs' = Append(lobjs, NewListener(pattern, opt))
    /\ listeners' = RegAdd(listeners, pattern, Len(lobjs) + 1)
    /\ UNCHANGED <<middlewares, mobjs, emits, patternCache>>

\* Pulse.on: the Listener is constructed first, then the pattern validated.
On(pattern, opt) ==
    /\ lobjs' = Append(lobjs, NewListener(pattern, opt))
    /\ listeners' =
         IF isValidTopic(ReplaceStars(pattern))
         THEN RegAdd(listeners, pattern, Len(lobjs) + 1)
         ELSE listeners
    /\ UNCHANGED <<middlewares, mobjs, emits, patternCache>>

\* Pulse.use
Use(pattern) ==
    /\ mobjs' = Append(mobjs, [pattern |-> pattern, destroyed |-> FALSE,
                                threw |-> FALSE])
    /\ middlewares' = Append(middlewares, Len(mobjs) + 1)
    /\ UNCHANGED <<listeners, lobjs, emits, patternCache>>

\* Middleware.destroy: the first call filters the middleware out of
\* pulse.middlewares, nulls its fields (the null pattern is written <<>>)
\* and replaces destroy by a function that throws 'Middleware already
\* destroyed'; threw notes that a later call ran into it.
DestroyMiddleware(m) ==
    /\ m \in 1..Len(mobjs)
    /\ IF mobjs[m].destroyed
       THEN /\ mobjs' = [mobjs EXCEPT ![m].threw = TRUE]
            /\ middlewares' = middlewares
       ELSE /\ mobjs' = [mobjs EXCEPT ![m] = [pattern |-> <<>>,
                                              destroyed |-> TRUE,
                                              threw |-> FALSE]]
            /\ middlewares' = SelectSeq(middlewares, LAMBDA x : x # m)
    /\ UNCHANGED <<listeners, lobjs, emits, patternCache>>

\* Listener.destroy called by the application.
Destroy(l) ==
    /\ l \in LIds
    /\ lobjs' = ObjDestroy(lobjs, l, "destroy")
    /\ listeners' = RegDestroy(listeners, lobjs[l].pattern, l)
    /\ UNCHANGED <<middlewares, mobjs, emits, patternCache>>

\* The autodestroy timer of Listener.constructor fires.
TimerFire(l) ==
    /\ l \in LIds
    /\ lobjs[l].timer
    /\ lobjs' = ObjDestroy(lobjs, l, "timer")
    /\ listeners' = RegDestroy(listeners, lobjs[l].pattern, l)
    /\ UNCHANGED <<middlewares, mobjs, emits, patternCache>>

\* An off that removes every bucket whose pattern overlaps the given one.
OffOverlapping(pattern) ==
    /\ BucketOf(listeners, pattern) # 0
    /\ listeners' = <<>>
    /\ lobjs' = [l \in LIds |->
          IF InRegistry(listeners, l)
          THEN [lobjs[l] EXCEPT !.by = "off"] ELSE lobjs[l]]
    /\ UNCHANGED <<middlewares, mobjs, emits, patternCache>>

\* Pulse.off
Off(pattern) ==
    /\ BucketOf(listeners, pattern) # 0
    /\ listeners' = SelectSeq(listeners, LAMBDA b : b.pattern # pattern)
    /\ lobjs' = [l \in LIds |->
          IF SeqHas(listeners[BucketOf(listeners, pattern)].set, l)
          THEN [lobjs[l] EXCEPT !.by = "off"] ELSE lobjs[l]]
    /\ UNCHANGED <<middlewares, mobjs, emits, patternCache>>

\* Pulse.removeAllListeners
RemoveAllListeners ==
    /\ listeners # <<>>
    /\ listeners' = <<>>
    /\ lobjs' = [l \in LIds |->
          IF InRegistry(listeners, l)
          THEN [lobjs[l] EXCEPT !.by = "off"] ELSE lobjs[l]]
    /\ UNCHANGED <<middlewares, mobjs, emits, patternCache>>

\* ------------------------------------------------------------------------
\* Events
\* ------------------------------------------------------------------------

NoErr == [kind |-> "none", pos |-> 0]
\* new Error(`Listener timed out after ${timeout}ms for topic: ${topic}`)
TimeoutErr == [kind |-> "timeout", pos |-> 0]
\* What a listener callback throws or rejects with.
CallbackErr == [kind |-> "cb", pos |-> 0]
\* What the middleware at position i of a chain throws or rejects with.
MiddlewareErr(i) == [kind |-> "mw", pos |-> i]
\* The TypeError of middleware.callback(...) on a destroyed middleware,
\* whose callback is null.
NullCallbackErr(i) == [kind |-> "type", pos |-> i]

\* PulseEvent.respond: a no-op on a silent event.
respond(ev, entry) ==
    IF ev.silent THEN ev ELSE [ev EXCEPT !.responses = Append(@, entry)]

\* An error method that records whatever the options say.
errorAlways(ev, entry) == [ev EXCEPT !.errors = Append(@, entry)]

\* PulseEvent.error: a no-op on a silent event.
error(ev, entry) ==
    IF ev.silent THEN ev ELSE [ev EXCEPT !.errors = Append(@, entry)]

\* An entry of event.responses / event.errors, tagged with the listener task
\* (position in emit's listeners array) whose chain wrote it.
Response(k, kind, i, val) == [task |-> k, kind |-> kind, pos |-> i, val |-> val]
ErrorOf(k, err) == [task |-> k, kind |-> err.kind, pos |-> err.pos]

\* ------------------------------------------------------------------------
\* Pulse.emit and the per-listener chain
\* ------------------------------------------------------------------------

\* A resolution that takes the first bucket whatever its pattern.
ResolveFirst(reg, topic) == IF reg = <<>> THEN <<>> ELSE Head(reg).set

\* emit, lines 106-110: the listeners of every bucket whose pattern matches,
\* buckets in Map order, listeners in Set order.
RECURSIVE Resolve(_, _)
Resolve(reg, topic) ==
    IF reg = <<>> THEN <<>>
    ELSE (IF matchPattern(topic, Head(reg).pattern) THEN Head(reg).set ELSE <<>>)
            \o Resolve(Tail(reg), topic)

\* A chain built from every registered middleware, matching or not.
MatchingMiddlewaresUnfiltered(topic) == middlewares

\* applyMiddlewaresToListener, lines 70-72.
MatchingMiddlewares(topic) ==
    SelectSeq(middlewares, LAMBDA m : matches(mobjs[m].pattern, topic))

\* Listener.call up to the callback's return: a callback that throws
\* synchronously makes the async arrow function reject before .then, .catch
\* and .finally are attached; otherwise the handlers wait for the promise.
CallState(throws) == IF throws THEN "thrown" ELSE "run"

\* One element of emit's promises array: the chain of listener l started by
\* listeners.map.  fr[i] is the invocation of mws[i]: idle (not invoked),
\* pre (before next()), wait (awaiting next()), post (after it), and settled
\* as ok, blocked (returned without calling next()) or err; nx counts its
\* next() calls and resp tells whether it called event.respond.  cb is
\* listener.call: idle, run, ok or thrown, and res what the callback's
\* promise settled with.  race is what Promise.race settled with; timer
\* tells whether the setTimeout of timeoutPromise is still to fire; seen
\* is what the chain's last look at the event's context found; log is the
\* order in which the chain's code ran.
NewTask(l, mws, throws) ==
    [l |-> l,
     mws |-> mws,
     index |-> IF mws = <<>> THEN 0 ELSE 1,
     fr |-> [i \in 1..Len(mws) |->
                [st |-> IF i = 1 THEN "pre" ELSE "idle", err |-> NoErr,
                 nx |-> 0, resp |-> FALSE]],
     cb |-> IF mws = <<>> THEN CallState(throws) ELSE "idle",
     res |-> "none",
     race |-> "pending",
     timer |-> TRUE,
     seen |-> {},
     log |-> IF mws = <<>> THEN << [ev |-> "cb", pos |-> 0] >>
             ELSE << [ev |-> "pre", pos |-> 1] >>]

\* new this.EventClass(topic, data, options) with emit's promise and tasks;
\* seq notes that every earlier emit had returned when this one was called.
NewEmit(topic, silent, options, ls, throws) ==
    [topic |-> topic,
     silent |-> silent,
     options |-> [timeout |-> IF options.given THEN options.timeout
                              ELSE DefaultEventTimeout],
     timeout |-> IF options.given /\ options.timeout # 0
                 THEN options.timeout ELSE DefaultRaceTimeout,
     seq |-> \A e \in EIds : emits[e].status # "pending",
     responses |-> <<>>,
     errors |-> <<>>,
     context |-> {},
     status |-> IF ls = <<>> THEN "resolved" ELSE "pending",
     tasks |-> [k \in 1..Len(ls) |->
                  NewTask(ls[k], MatchingMiddlewares(topic), throws[k])]]

\* emit on a topic that fails isValidTopic: the async function throws.
RejectedEmit(topic, silent, options) ==
    [topic |-> topic, silent |-> silent,
     options |-> [timeout |-> 0], timeout |-> 0,
     seq |-> \A e \in EIds : emits[e].status # "pending",
     responses |-> <<>>, errors |-> <<>>, context |-> {},
     status |-> "rejected", tasks |-> <<>>]

\* #compilePattern, lines 149-150 and 208: a pattern that is not in the
\* cache is compiled and set in it; nothing is ever deleted from it.
CacheSet(cache, patterns) == cache \cup patterns

\* The keys of this.listeners, which emit's loop hands to #matchPattern.
RegistryPatterns(reg) == { reg[b].pattern : b \in 1..Len(reg) }

\* Pulse.matchesPattern: #matchPattern on any topic and pattern; what it
\* returns is matchPattern(topic, pattern).
MatchesPattern(topic, pattern) ==
    /\ patternCache' = CacheSet(patternCache, {pattern})
    /\ UNCHANGED <<listeners, lobjs, middlewares, mobjs, emits>>

\* An emit that dispatches without validating the topic.
EmitStartUnchecked(topic, silent, options, throws) ==
    /\ emits' = Append(emits,
          NewEmit(topic, silent, options, Resolve(listeners, topic), throws))
    /\ patternCache' = CacheSet(patternCache, RegistryPatterns(listeners))
    /\ UNCHANGED <<listeners, lobjs, middlewares, mobjs>>

\* Pulse.emit up to its await: validation, resolution, the Event, and the
\* synchronous start of every chain (listeners.map runs each chain up to
\* its first middleware or, with no matching middleware, its callback).
EmitStart(topic, silent, options, throws) ==
    /\ emits' = Append(emits,
          IF isValidTopic(topic)
          THEN NewEmit(topic, silent, options,
                       Resolve(listeners, topic), throws)
          ELSE RejectedEmit(topic, silent, options))
    /\ patternCache' =
         IF isValidTopic(topic)
         THEN CacheSet(patternCache, RegistryPatterns(listeners))
         ELSE patternCache
    /\ UNCHANGED <<listeners, lobjs, middlewares, mobjs>>

\* An await that resumes before the awaited promise has settled.
ChildSettledEager(t, i) == TRUE

\* The promise a frame's next() returned: the next middleware's, or
\* listener.call's when the frame is the last of the chain.
ChildSettled(t, i) ==
    IF i < Len(t.fr) THEN t.fr[i + 1].st \in {"ok", "blocked", "err"}
    ELSE t.cb \in {"ok", "thrown"}

ChildErr(t, i) ==
    IF i < Len(t.fr) THEN t.fr[i + 1].err
    ELSE IF t.cb = "thrown" THEN CallbackErr ELSE NoErr

\* The promise of applyMiddlewaresToListener(event, listener).
ChainSettled(t) ==
    IF t.fr = <<>> THEN t.cb \in {"ok", "thrown"}
    ELSE t.fr[1].st \in {"ok", "blocked", "err"}

ChainErr(t) ==
    IF t.fr = <<>> THEN (IF t.cb = "thrown" THEN CallbackErr ELSE NoErr)
    ELSE t.fr[1].err

\* next(), lines 78-84, called (and awaited) by the middleware at position i:
\* past the last middleware it calls listener.call, otherwise the
\* middleware at the cursor.
Next_(t, i, throws) ==
    IF t.index >= Len(t.mws)
    THEN [t EXCEPT !.fr[i].st = "wait",
                   !.fr[i].nx = @ + 1,
                   !.cb = CallState(throws),
                   !.log = Append(@, [ev |-> "cb", pos |-> 0])]
    ELSE IF mobjs[t.mws[t.index + 1]].destroyed
    THEN [t EXCEPT !.fr[i].st = "wait",
                   !.fr[i].nx = @ + 1,
                   !.fr[t.index + 1].st = "err",
                   !.fr[t.index + 1].err = NullCallbackErr(t.index + 1),
                   !.index = @ + 1]
    ELSE [t EXCEPT !.fr[i].st = "wait",
                   !.fr[i].nx = @ + 1,
                   !.fr[t.index + 1].st = "pre",
                   !.index = @ + 1,
                   !.log = Append(@, [ev |-> "pre", pos |-> t.index + 1])]

MwNext(e, k, i, throws) ==
    /\ emits[e].tasks[k].fr[i].st = "pre"
    /\ emits' = [emits EXCEPT ![e].tasks[k] = Next_(@, i, throws)]
    /\ UNCHANGED <<listeners, lobjs, middlewares, mobjs, patternCache>>

\* A middleware that has awaited next() calls it again: the cursor is
\* shared by every call of the chain's next, so the call goes on from where
\* the chain stopped, the listener when the cursor is past the last
\* middleware.
MwNextAgain(e, k, i, throws) ==
    /\ emits[e].tasks[k].fr[i].st = "post"
    /\ emits[e].tasks[k].fr[i].nx < MaxNextCalls
    /\ emits' = [emits EXCEPT ![e].tasks[k] = Next_(@, i, throws)]
    /\ UNCHANGED <<listeners, lobjs, middlewares, mobjs, patternCache>>

\* A chain that falls through to the listener when a middleware returns
\* without calling next().
MwBlockThenCall(e, k, i, responds) ==
    /\ emits[e].tasks[k].fr[i].st = "pre"
    /\ emits' = [emits EXCEPT ![e] =
          LET ev == IF responds
                    THEN respond(@, Response(k, "mw", i, "blocked"))
                    ELSE @
          IN  [ev EXCEPT !.tasks[k].fr[i].st = "blocked",
                         !.tasks[k].fr[i].resp = responds,
                         !.tasks[k].cb = "run"]]
    /\ UNCHANGED <<listeners, lobjs, middlewares, mobjs, patternCache>>

\* A middleware returns without calling next(), after event.respond(...)
\* when responds.
MwBlock(e, k, i, responds) ==
    /\ emits[e].tasks[k].fr[i].st = "pre"
    /\ emits' = [emits EXCEPT ![e] =
          LET ev == IF responds
                    THEN respond(@, Response(k, "mw", i, "blocked"))
                    ELSE @
          IN  [ev EXCEPT !.tasks[k].fr[i].st = "blocked",
                         !.tasks[k].fr[i].resp = responds]]
    /\ UNCHANGED <<listeners, lobjs, middlewares, mobjs, patternCache>>

\* A chain that goes on to the next middleware or the listener when a
\* middleware throws before calling next().
MwThrowContinues(e, k, i) ==
    /\ emits[e].tasks[k].fr[i].st \in {"pre", "post"}
    /\ emits' = [emits EXCEPT ![e].tasks[k] =
          LET t == IF @.fr[i].st = "pre" THEN Next_(@, i, FALSE) ELSE @
          IN  [t EXCEPT !.fr[i].st = "err",
                        !.fr[i].nx = 0,
                        !.fr[i].err = MiddlewareErr(i)]]
    /\ UNCHANGED <<listeners, lobjs, middlewares, mobjs, patternCache>>

\* A middleware throws or rejects, before next() or after it resumed.
MwThrow(e, k, i) ==
    /\ emits[e].tasks[k].fr[i].st \in {"pre", "post"}
    /\ emits' = [emits EXCEPT ![e].tasks[k].fr[i].st = "err",
                               ![e].tasks[k].fr[i].err = MiddlewareErr(i)]
    /\ UNCHANGED <<listeners, lobjs, middlewares, mobjs, patternCache>>

\* await next() resumes: the code after it runs, or the rejection of the
\* awaited promise is thrown out of the middleware.
MwResume(e, k, i) ==
    LET t == emits[e].tasks[k]
    IN  /\ t.fr[i].st = "wait"
        /\ ChildSettled(t, i)
        /\ emits' = [emits EXCEPT ![e].tasks[k] =
              IF ChildErr(t, i) = NoErr
              THEN [t EXCEPT !.fr[i].st = "post",
                             !.log = Append(@, [ev |-> "post", pos |-> i])]
              ELSE [t EXCEPT !.fr[i].st = "err", !.fr[i].err = ChildErr(t, i)]]
        /\ UNCHANGED <<listeners, lobjs, middlewares, mobjs, patternCache>>

\* A middleware returns after its post-next code.
MwReturn(e, k, i) ==
    /\ emits[e].tasks[k].fr[i].st = "post"
    /\ emits' = [emits EXCEPT ![e].tasks[k].fr[i].st = "ok"]
    /\ UNCHANGED <<listeners, lobjs, middlewares, mobjs, patternCache>>

\* A .then handler that tests the returned value for truthiness.
CallThenTruthy(ev, k, res) ==
    IF res \notin {"undefined", "null", "0", "false", ""}
    THEN respond(ev, Response(k, "cb", 0, res))
    ELSE ev

\* Listener.call, the .then handler: respond unless undefined or null.
CallThen(ev, k, res) ==
    IF res # "undefined" /\ res # "null"
    THEN respond(ev, Response(k, "cb", 0, res))
    ELSE ev

\* A .catch handler that hands the error to event.respond.
CallCatchResponds(ev, k) == respond(ev, Response(k, "cb", 0, "reject"))

\* Listener.call, the .catch handler.
CallCatch(ev, k) == error(ev, ErrorOf(k, CallbackErr))

\* Listener.call, the .finally handler: count the call and destroy the
\* listener once the autodestroy.calls threshold is reached.
CallFinallyObjs(l) ==
    LET counted == [lobjs EXCEPT ![l].calls = @ + 1]
    IN  IF counted[l].limit # 0 /\ counted[l].calls >= counted[l].limit
        THEN ObjDestroy(counted, l, "calls")
        ELSE counted

CallFinallyReg(l) ==
    IF lobjs[l].limit # 0 /\ lobjs[l].calls + 1 >= lobjs[l].limit
    THEN RegDestroy(listeners, lobjs[l].pattern, l)
    ELSE listeners

\* The promise returned by the listener's callback settles with outcome:
\* .then or .catch, then .finally.
CbSettle(e, k, outcome) ==
    LET l == emits[e].tasks[k].l
    IN  /\ emits[e].tasks[k].cb = "run"
        /\ emits' = [emits EXCEPT ![e] =
              LET ev == IF outcome = "reject"
                        THEN CallCatch(@, k)
                        ELSE CallThen(@, k, outcome)
              IN  [ev EXCEPT !.tasks[k].cb = "ok", !.tasks[k].res = outcome]]
        /\ lobjs' = CallFinallyObjs(l)
        /\ listeners' = CallFinallyReg(l)
        /\ UNCHANGED <<middlewares, mobjs, patternCache>>

\* Listener.call for a callback that returns a value, not a promise:
\* Promise.resolve(value) is already resolved, so the .then reactions of
\* the listeners of one emission run in the order of the calls.
CbSettleSync(e, k, outcome) ==
    /\ \A j \in 1..(k - 1) : emits[e].tasks[j].cb # "run"
    /\ CbSettle(e, k, outcome)

\* The code of chain k of emission e is running: a middleware before or
\* after its next(), or the listener's callback.
Running(e, k) ==
    \/ emits[e].tasks[k].cb = "run"
    \/ \E i \in FIds(e, k) : emits[e].tasks[k].fr[i].st \in {"pre", "post"}

\* PulseEvent.set, called by the middleware or the listener of chain k with
\* a key of its own: the key <<e, k>> enters the #context of the event the
\* chain was handed.
EventSet(e, k) ==
    /\ Running(e, k)
    /\ emits' = [emits EXCEPT ![e].context = @ \cup {<<e, k>>}]
    /\ UNCHANGED <<listeners, lobjs, middlewares, mobjs, patternCache>>

\* A chain that is handed a private copy of the event and finds in it only
\* what the chain itself has set.
EventGetOwn(e, k) ==
    /\ Running(e, k)
    /\ emits' = [emits EXCEPT ![e].tasks[k].seen =
                                  emits[e].context \cap {<<e, k>>}]
    /\ UNCHANGED <<listeners, lobjs, middlewares, mobjs, patternCache>>

\* PulseEvent.has / get, called by the middleware or the listener of chain
\* k for every key: what it finds is the #context of the event the chain
\* was handed.
EventGet(e, k) ==
    /\ Running(e, k)
    /\ emits' = [emits EXCEPT ![e].tasks[k].seen = emits[e].context]
    /\ UNCHANGED <<listeners, lobjs, middlewares, mobjs, patternCache>>

\* A catch block that swallows the error without event.error.
TaskCatchForgets(ev, k, err) == ev

\* The message of the timeout error: `Listener timed out after
\* ${timeout}ms for topic: ${topic}`.
TimeoutMessage(ev) == [bound |-> ev.timeout, topic |-> ev.topic]

\* emit, lines 130-135: the catch block of a per-listener task.
TaskCatch(ev, k, err) == error(ev, ErrorOf(k, err))

\* Promise.race settles with the chain's promise and the task's await
\* resumes: a rejection goes to the catch block.
TaskSettle(e, k) ==
    LET t == emits[e].tasks[k]
    IN  /\ t.race = "pending"
        /\ ChainSettled(t)
        /\ emits' = [emits EXCEPT ![e] =
              LET ev == IF ChainErr(t) = NoErr THEN @
                        ELSE TaskCatch(@, k, ChainErr(t))
              IN  [ev EXCEPT !.tasks[k].race = "chain"]]
        /\ UNCHANGED <<listeners, lobjs, middlewares, mobjs, patternCache>>

\* A timeout that settles the race without the timeout error reaching
\* event.errors.
TimeoutFireUnrecorded(e, k) ==
    LET t == emits[e].tasks[k]
    IN  /\ t.race = "pending"
        /\ ~ChainSettled(t)
        /\ emits' = [emits EXCEPT ![e].tasks[k].race = "timeout",
                                   ![e].tasks[k].timer = FALSE]
        /\ UNCHANGED <<listeners, lobjs, middlewares, mobjs, patternCache>>

\* The timer of timeoutPromise fires before the chain has settled: the
\* race rejects and the catch block records the timeout.  The chain itself
\* is not cancelled.
TimeoutFire(e, k) ==
    LET t == emits[e].tasks[k]
    IN  /\ t.race = "pending"
        /\ ~ChainSettled(t)
        /\ emits' = [emits EXCEPT ![e] =
              [TaskCatch(@, k, TimeoutErr) EXCEPT !.tasks[k].race = "timeout",
                                                  !.tasks[k].timer = FALSE]]
        /\ UNCHANGED <<listeners, lobjs, middlewares, mobjs, patternCache>>

\* The timer of timeoutPromise fires after the chain has settled: emit
\* never clears it, and its reject finds the race already settled.
TimeoutLate(e, k) ==
    LET t == emits[e].tasks[k]
    IN  /\ t.timer
        /\ ChainSettled(t)
        /\ emits' = [emits EXCEPT ![e].tasks[k].timer = FALSE]
        /\ UNCHANGED <<listeners, lobjs, middlewares, mobjs, patternCache>>

\* An emit that waits for the chains themselves and not for the races.
AllChainsSettled(tasks) == \A k \in 1..Len(tasks) : ChainSettled(tasks[k])

\* await Promise.allSettled(promises); return event.
AllSettled(tasks) == \A k \in 1..Len(tasks) : tasks[k].race # "pending"

EmitReturn(e) ==
    /\ emits[e].status = "pending"
    /\ AllSettled(emits[e].tasks)
    /\ emits' = [emits EXCEPT ![e].status = "resolved"]
    /\ UNCHANGED <<listeners, lobjs, middlewares, mobjs, patternCache>>

\* ------------------------------------------------------------------------
\* Specification
\* ------------------------------------------------------------------------

\* What one chain of an emission can do next.
ChainStep(e, k, outcomes) ==
    \/ \E i \in FIds(e, k) :
          \/ \E th \in BOOLEAN : MwNext(e, k, i, th)
          \/ \E r \in BOOLEAN : MwBlock(e, k, i, r)
          \/ MwThrow(e, k, i)
          \/ MwResume(e, k, i)
          \/ MwReturn(e, k, i)
    \/ \E o \in outcomes : CbSettle(e, k, o)
    \/ TaskSettle(e, k)
    \/ TimeoutFire(e, k)

\* The bus with the operations on its listeners, emissions overlapping (of
\* events that are not silent: what the registry and the call counters do
\* does not depend on it).
Next ==
    \/ \E p \in ListenerPatterns, o \in ListenerOptions :
          Len(lobjs) < MaxListeners /\ On(p, o)
    \/ \E p \in MiddlewarePatterns :
          Len(mobjs) < MaxMiddlewares /\ Use(p)
    \/ \E l \in LIds : Destroy(l)
    \/ \E l \in LIds : TimerFire(l)
    \/ \E p \in ListenerPatterns : Off(p)
    \/ RemoveAllListeners
    \/ \E t \in Topics, th \in [1..MaxListeners -> BOOLEAN] :
          Len(emits) < MaxEmits /\ EmitStart(t, FALSE, NoEmitOptions, th)
    \/ \E e \in EIds : \E k \in TIds(e) : ChainStep(e, k, ChainOutcomes)
    \/ \E e \in EIds : EmitReturn(e)

Spec == Init /\ [][Next]_vars

\* One emission over longer chains and several listeners, the registry
\* left alone once built.
ChainNext ==
    \/ \E p \in ListenerPatterns :
          Len(lobjs) < ChainListeners /\ On(p, NoOptions)
    \/ \E p \in MiddlewarePatterns :
          Len(mobjs) < ChainMiddlewares /\ Use(p)
    \/ \E t \in Topics, s \in BOOLEAN, th \in [1..ChainListeners -> BOOLEAN] :
          Len(emits) < ChainEmits /\ EmitStart(t, s, NoEmitOptions, th)
    \/ \E e \in EIds : \E k \in TIds(e) : ChainStep(e, k, ChainOutcomes)
    \/ \E e \in EIds : EmitReturn(e)

SpecChain == Init /\ [][ChainNext]_vars

\* One listener called once, its callback returning every kind of value.
CallNext ==
    \/ \E p \in ListenerPatterns :
          Len(lobjs) < CallListeners /\ On(p, NoOptions)
    \/ \E p \in MiddlewarePatterns :
          Len(mobjs) < CallMiddlewares /\ Use(p)
    \/ \E t \in Topics, s \in BOOLEAN, th \in [1..CallListeners -> BOOLEAN] :
          Len(emits) < CallEmits /\ EmitStart(t, s, NoEmitOptions, th)
    \/ \E e \in EIds : \E k \in TIds(e) : ChainStep(e, k, Outcomes)
    \/ \E e \in EIds : EmitReturn(e)

SpecCall == Init /\ [][CallNext]_vars

\* One listener registered under any pattern, then one emission on any
\* topic.
MatchNext ==
    \/ \E p \in MatchPatterns :
          Len(lobjs) < MatchListeners /\ On(p, NoOptions)
    \/ \E t \in MatchTopics, th \in [1..MatchListeners -> BOOLEAN] :
          /\ Len(lobjs) = MatchListeners
          /\ Len(emits) < MatchEmits
          /\ EmitStart(t, FALSE, NoEmitOptions, th)
    \/ \E e \in EIds : \E k \in TIds(e) : ChainStep(e, k, ChainOutcomes)
    \/ \E e \in EIds : EmitReturn(e)

SpecMatch == Init /\ [][MatchNext]_vars

\* Several listeners under overlapping patterns, with every way of taking
\* them out of the registry, and one emission with no middleware.
RegistryNext ==
    \/ \E p \in ListenerPatterns, o \in RegistryOptions :
          Len(lobjs) < RegistryListeners /\ On(p, o)
    \/ \E l \in LIds : Destroy(l)
    \/ \E l \in LIds : TimerFire(l)
    \/ \E p \in ListenerPatterns : Off(p)
    \/ RemoveAllListeners
    \/ \E t \in Topics, th \in [1..RegistryListeners -> BOOLEAN] :
          Len(emits) < RegistryEmits /\ EmitStart(t, FALSE, NoEmitOptions, th)
    \/ \E e \in EIds : \E k \in TIds(e) : ChainStep(e, k, ChainOutcomes)
    \/ \E e \in EIds : EmitReturn(e)

SpecRegistry == Init /\ [][RegistryNext]_vars

\* The same bus with the event loop fair to the autodestroy timers: a
\* timer set by setTimeout and not cleared fires.
SpecTimer ==
    /\ Init
    /\ [][RegistryNext]_vars
    /\ \A l \in 1..RegistryListeners : WF_vars(TimerFire(l))

\* Registrations with valid and invalid patterns under every option, the
\* timers they arm, and one emission.
RejectNext ==
    \/ \E p \in RejectPatterns, o \in RejectOptions :
          Len(lobjs) < RejectListeners /\ On(p, o)
    \/ \E l \in LIds : Destroy(l)
    \/ \E l \in LIds : TimerFire(l)
    \/ \E t \in Topics, th \in [1..RejectListeners -> BOOLEAN] :
          Len(emits) < RejectEmits /\ EmitStart(t, FALSE, NoEmitOptions, th)
    \/ \E e \in EIds : \E k \in TIds(e) : ChainStep(e, k, ChainOutcomes)
    \/ \E e \in EIds : EmitReturn(e)

SpecReject == Init /\ [][RejectNext]_vars

\* Patterns compiled through emit, for the buckets of the registry, and
\* through matchesPattern.
CacheNext ==
    \/ \E p \in CachePatterns :
          Len(lobjs) < CacheListeners /\ On(p, NoOptions)
    \/ \E t \in Topics, p \in CachePatterns : MatchesPattern(t, p)
    \/ \E t \in Topics, th \in [1..CacheListeners -> BOOLEAN] :
          Len(emits) < CacheEmits /\ EmitStart(t, FALSE, NoEmitOptions, th)
    \/ \E e \in EIds : \E k \in TIds(e) : ChainStep(e, k, ChainOutcomes)
    \/ \E e \in EIds : EmitReturn(e)

SpecCache == Init /\ [][CacheNext]_vars

\* Listeners whose callbacks return a value or throw, synchronously, and no
\* middleware: every chain settles in the microtasks that follow emit's
\* synchronous part, before any timer.
OrderNext ==
    \/ \E p \in ListenerPatterns :
          Len(lobjs) < OrderListeners /\ On(p, NoOptions)
    \/ \E l \in LIds : Destroy(l)
    \/ \E p \in ListenerPatterns : Off(p)
    \/ \E t \in Topics, th \in [1..OrderListeners -> BOOLEAN] :
          Len(emits) < OrderEmits /\ EmitStart(t, FALSE, NoEmitOptions, th)
    \/ \E e \in EIds : \E k \in TIds(e) : CbSettleSync(e, k, "ok")
    \/ \E e \in EIds : \E k \in TIds(e) : TaskSettle(e, k)
    \/ \E e \in EIds : EmitReturn(e)

SpecOrder == Init /\ [][OrderNext]_vars

\* A chain whose middleware call next() and return, and whose callback
\* returns a value.
EventChainStep(e, k) ==
    \/ \E i \in FIds(e, k) :
          \/ MwNext(e, k, i, FALSE)
          \/ MwResume(e, k, i)
          \/ MwReturn(e, k, i)
    \/ CbSettle(e, k, "ok")
    \/ TaskSettle(e, k)

\* Emissions whose middleware and listeners set and read context values of
\* the event they are handed, none of them failing, once the listeners and
\* the middleware are registered; each emit is awaited before the next.
EventNext ==
    \/ Len(lobjs) < EventListeners /\ On(S_a, NoOptions)
    \/ Len(mobjs) < EventMiddlewares /\ Use(S_a)
    \/ \E t \in Topics :
          /\ Len(lobjs) = EventListeners
          /\ Len(mobjs) = EventMiddlewares
          /\ Len(emits) < EventEmits
          /\ \A e \in EIds : emits[e].status # "pending"
          /\ EmitStart(t, FALSE, NoEmitOptions,
                       [k \in 1..EventListeners |-> FALSE])
    \/ \E e \in EIds : \E k \in TIds(e) : EventSet(e, k)
    \/ \E e \in EIds : \E k \in TIds(e) : EventGet(e, k)
    \/ \E e \in EIds : \E k \in TIds(e) : EventChainStep(e, k)
    \/ \E e \in EIds : EmitReturn(e)

SpecEvent == Init /\ [][EventNext]_vars

\* One middleware registered under any pattern and one listener under **,
\* which receives every topic, then one emission on any topic.
MwMatchNext ==
    \/ Len(lobjs) < MwMatchListeners /\ On(<<"*", "*">>, NoOptions)
    \/ \E p \in MatchPatterns :
          Len(mobjs) < MwMatchMiddlewares /\ Use(p)
    \/ \E t \in MatchTopics :
          /\ Len(lobjs) = MwMatchListeners
          /\ Len(mobjs) = MwMatchMiddlewares
          /\ Len(emits) < MwMatchEmits
          /\ EmitStart(t, FALSE, NoEmitOptions,
                       [k \in 1..MwMatchListeners |-> FALSE])
    \/ \E e \in EIds : \E k \in TIds(e) : EventChainStep(e, k)
    \/ \E e \in EIds : EmitReturn(e)

SpecMwMatch == Init /\ [][MwMatchNext]_vars

\* One emission whose middleware may call next() again after having
\* awaited it.
NextNext ==
    \/ \E p \in ListenerPatterns :
          Len(lobjs) < NextListeners /\ On(p, NoOptions)
    \/ \E p \in MiddlewarePatterns :
          Len(mobjs) < NextMiddlewares /\ Use(p)
    \/ \E t \in Topics, th \in [1..NextListeners -> BOOLEAN] :
          Len(emits) < NextEmits /\ EmitStart(t, FALSE, NoEmitOptions, th)
    \/ \E e \in EIds : \E k \in TIds(e) : \E i \in FIds(e, k) :
          \E th \in BOOLEAN : MwNextAgain(e, k, i, th)
    \/ \E e \in EIds : \E k \in TIds(e) : ChainStep(e, k, ChainOutcomes)
    \/ \E e \in EIds : EmitReturn(e)

SpecNext == Init /\ [][NextNext]_vars

\* Middleware registered and destroyed, once or again, before, during and
\* after one emission.
MiddlewareNext ==
    \/ \E p \in ListenerPatterns :
          Len(lobjs) < MwListeners /\ On(p, NoOptions)
    \/ \E p \in MiddlewarePatterns :
          Len(mobjs) < MwMiddlewares /\ Use(p)
    \/ \E m \in 1..Len(mobjs) : DestroyMiddleware(m)
    \/ \E t \in Topics, th \in [1..MwListeners -> BOOLEAN] :
          Len(emits) < MwEmits /\ EmitStart(t, FALSE, NoEmitOptions, th)
    \/ \E e \in EIds : \E k \in TIds(e) : ChainStep(e, k, ChainOutcomes)
    \/ \E e \in EIds : EmitReturn(e)

SpecMiddleware == Init /\ [][MiddlewareNext]_vars

\* One emission with every option, its listeners and middleware free never
\* to settle.  The event loop is fair to what does not depend on them: a
\* pending race is settled by its chain or, failing that, by its timer
\* (setTimeout fires), and an emit whose races are all settled returns.
TimeoutNext ==
    \/ \E p \in ListenerPatterns :
          Len(lobjs) < TimeoutListeners /\ On(p, NoOptions)
    \/ \E p \in MiddlewarePatterns :
          Len(mobjs) < TimeoutMiddlewares /\ Use(p)
    \/ \E t \in Topics, s \in BOOLEAN, o \in EmitOptions,
           th \in [1..TimeoutListeners -> BOOLEAN] :
          Len(emits) < TimeoutEmits /\ EmitStart(t, s, o, th)
    \/ \E e \in EIds : \E k \in TIds(e) : ChainStep(e, k, ChainOutcomes)
    \/ \E e \in EIds : \E k \in TIds(e) : TimeoutLate(e, k)
    \/ \E e \in EIds : EmitReturn(e)

RaceSettles(e, k) ==
    /\ e \in EIds
    /\ k \in TIds(e)
    /\ (TaskSettle(e, k) \/ TimeoutFire(e, k))

Returns(e) == e \in EIds /\ EmitReturn(e)

SpecTimeout ==
    /\ Init
    /\ [][TimeoutNext]_vars
    /\ \A e \in 1..TimeoutEmits :
          /\ WF_vars(Returns(e))
          /\ \A k \in 1..TimeoutListeners : WF_vars(RaceSettles(e, k))

\* ------------------------------------------------------------------------
\* Vocabulary of the properties
\* ------------------------------------------------------------------------

AllTasks == UNION { { <<e, k>> : k \in TIds(e) } : e \in EIds }
TaskAt(p) == emits[p[1]].tasks[p[2]]

\* Callback invocations of listener l: started, ended (returned, rejected
\* or thrown), and ended through .then/.catch/.finally.
Invoked(l) ==
    Cardinality({ p \in AllTasks : TaskAt(p).l = l /\ TaskAt(p).cb # "idle" })
Ended(l) ==
    Cardinality({ p \in AllTasks :
                    TaskAt(p).l = l /\ TaskAt(p).cb \in {"ok", "thrown"} })
Counted(l) ==
    Cardinality({ p \in AllTasks : TaskAt(p).l = l /\ TaskAt(p).cb = "ok" })

Count(s, x) == Cardinality({ i \in 1..Len(s) : s[i] = x })
CallbackResponses(e, k) ==
    Cardinality({ i \in 1..Len(emits[e].responses) :
                    /\ emits[e].responses[i].task = k
                    /\ emits[e].responses[i].kind = "cb" })

IsPrefix(s, t) == Len(s) <= Len(t) /\ SubSeq(t, 1, Len(s)) = s

\* M1-pre, ..., Mn-pre, listener callback, Mn-post, ..., M1-post.
Onion(n) ==
    [j \in 1..(2 * n + 1) |->
        IF j <= n THEN [ev |-> "pre", pos |-> j]
        ELSE IF j = n + 1 THEN [ev |-> "cb", pos |-> 0]
        ELSE [ev |-> "post", pos |-> 2 * n + 2 - j]]

\* ------------------------------------------------------------------------
\* C1 - emit on a valid topic never rejects
\* ------------------------------------------------------------------------

\* C1: whatever the listeners and middleware of an emission on a valid topic
\* do (return, throw synchronously, reject, never settle), the promise of
\* emit is never rejected; it resolves only when every per-listener task
\* has settled, and a failure that settled a task (the chain's rejection,
\* or the timeout) is an entry of event.errors of a non-silent event.
C1_EmitNeverRejects ==
    \A e \in EIds :
        isValidTopic(emits[e].topic) =>
            /\ emits[e].status # "rejected"
            /\ emits[e].status = "resolved" =>
                  \A k \in TIds(e) : emits[e].tasks[k].race # "pending"
            /\ ~emits[e].silent =>
                  \A k \in TIds(e) :
                      LET t == emits[e].tasks[k]
                      IN  /\ (t.race = "chain" /\ ChainErr(t) # NoErr) =>
                                SeqHas(emits[e].errors, ErrorOf(k, ChainErr(t)))
                          /\ t.race = "timeout" =>
                                SeqHas(emits[e].errors, ErrorOf(k, TimeoutErr))

\* An emission that resolved although one chain failed and another timed out.
C1_Witness ==
    \E e \in EIds :
        /\ emits[e].status = "resolved"
        /\ ~emits[e].silent
        /\ \E k1, k2 \in TIds(e) :
              /\ emits[e].tasks[k1].race = "chain"
              /\ ChainErr(emits[e].tasks[k1]) # NoErr
              /\ emits[e].tasks[k2].race = "timeout"

\* ------------------------------------------------------------------------
\* C2 - autodestroy.calls over emissions awaited one after the other
\* ------------------------------------------------------------------------

\* Emissions that have returned and whose chain invoked the callback of l;
\* those of them whose chain for l ran to its end before emit returned.
Reached(l) ==
    Cardinality({ p \in AllTasks :
                    /\ TaskAt(p).l = l
                    /\ emits[p[1]].status = "resolved"
                    /\ TaskAt(p).cb # "idle" })
Completed(l) ==
    Cardinality({ p \in AllTasks :
                    /\ TaskAt(p).l = l
                    /\ emits[p[1]].status = "resolved"
                    /\ TaskAt(p).race = "chain"
                    /\ TaskAt(p).cb # "idle" })

\* C2: with every emit awaited before the next one, a listener registered
\* with autodestroy.calls = N (once: N = 1) that nothing else removed is in
\* the registry while fewer than N emissions that reached it have returned,
\* and is out of the registry once N emissions whose chain invoked it have
\* completed.
C2_AutodestroyAfterNEmissions ==
    (\A e \in EIds : emits[e].seq /\ emits[e].status # "pending") =>
        \A l \in LIds :
            lobjs[l].limit > 0 =>
                /\ (Reached(l) < lobjs[l].limit
                        /\ lobjs[l].by \notin {"destroy", "timer", "off"})
                      => InRegistry(listeners, l)
                /\ Completed(l) >= lobjs[l].limit => ~InRegistry(listeners, l)

\* ------------------------------------------------------------------------
\* C3 - a once listener is invoked at most once
\* ------------------------------------------------------------------------

\* C3: over any interleaving of emit calls, the callback of a listener
\* registered with once (autodestroy.calls = N) is invoked at most once
\* (N times) in total.
C3_InvokedAtMostLimit ==
    \A l \in LIds : lobjs[l].limit > 0 => Invoked(l) <= lobjs[l].limit

\* ------------------------------------------------------------------------
\* C4 - a removed listener is never invoked
\* ------------------------------------------------------------------------

\* C4: no step invokes the callback of a listener that is not in the
\* registry: a chain that had resolved the listener before its removal and
\* reaches listener.call afterwards does not run the callback.
C4_RemovedNeverInvoked ==
    [][\A e \in EIds : \A k \in TIds(e) :
          (emits[e].tasks[k].cb = "idle" /\ emits'[e].tasks[k].cb # "idle")
              => InRegistry(listeners, emits[e].tasks[k].l)]_vars

\* ------------------------------------------------------------------------
\* C5 - call accounting
\* ------------------------------------------------------------------------

\* C5: the call counter of a listener is the number of invocations of its
\* callback that have ended (returned, rejected, or thrown synchronously),
\* and a listener whose counter has reached its autodestroy.calls threshold
\* is out of the registry: a once listener whose callback threw is removed.
C5_EveryEndedCallCounted ==
    \A l \in LIds :
        /\ lobjs[l].calls = Ended(l)
        /\ (lobjs[l].limit > 0 /\ Ended(l) >= lobjs[l].limit)
              => ~InRegistry(listeners, l)

\* ------------------------------------------------------------------------
\* C6 - returned values become responses
\* ------------------------------------------------------------------------

\* What a callback can return (a rejection is not a return).
Returned(t) == t.cb = "ok" /\ t.res \in ReturnValues

\* C6 as stated: a returned value other than undefined, null, 0, false and
\* the empty string included, is appended to event.responses exactly once
\* for that invocation, and undefined appends nothing.
C6_Original ==
    \A e \in EIds : \A k \in TIds(e) :
        (~emits[e].silent /\ Returned(emits[e].tasks[k])) =>
            CallbackResponses(e, k) =
                IF emits[e].tasks[k].res = "undefined" THEN 0 ELSE 1

\* C6: on an event that is not silent, a returned value other than
\* undefined and null (0, false and the empty string included) is appended
\* to event.responses exactly once for that invocation; a returned
\* undefined or null appends nothing, and nothing is appended for an
\* invocation that has not returned.
C6_ReturnedValueResponds ==
    \A e \in EIds : \A k \in TIds(e) :
        LET t == emits[e].tasks[k]
        IN  ~emits[e].silent =>
              IF Returned(t) /\ t.res \notin {"undefined", "null"}
              THEN /\ CallbackResponses(e, k) = 1
                   /\ SeqHas(emits[e].responses, Response(k, "cb", 0, t.res))
              ELSE CallbackResponses(e, k) = 0

\* A callback returned 0, false or the empty string and it is a response.
C6_Witness ==
    \E e \in EIds : \E k \in TIds(e) :
        /\ ~emits[e].silent
        /\ Returned(emits[e].tasks[k])
        /\ emits[e].tasks[k].res \in {"0", "false", ""}
        /\ SeqHas(emits[e].responses,
                  Response(k, "cb", 0, emits[e].tasks[k].res))

\* ------------------------------------------------------------------------
\* C7 - a failing listener callback
\* ------------------------------------------------------------------------

\* The callback of the chain threw synchronously or rejected.
Failed(t) == t.cb = "thrown" \/ (t.cb = "ok" /\ t.res = "reject")

C8_OnionOrder ==
    \A e \in EIds : \A k \in TIds(e) :
        LET t == emits[e].tasks[k]
            n == Len(t.mws)
        IN  (\A i \in FIds(e, k) : t.fr[i].st # "blocked") =>
                /\ IsPrefix(t.log, Onion(n))
                /\ \A j \in 1..Len(t.log) : t.log[j].ev = "post" => t.cb = "ok"
                /\ (n > 0 /\ t.fr[1].st = "ok") => t.log = Onion(n)

\* A chain of two middleware that ran to its end.
C8_Witness ==
    \E e \in EIds : \E k \in TIds(e) :
        /\ Len(emits[e].tasks[k].mws) = 2
        /\ emits[e].tasks[k].fr[1].st = "ok"
        /\ emits[e].tasks[k].log = Onion(2)
        /\ emits[e].tasks[k].race = "chain"

\* ------------------------------------------------------------------------
\* C9 - a middleware that does not call next()
\* ------------------------------------------------------------------------

Threw(t, i) == t.fr[i].err = MiddlewareErr(i)

C11_ChainContinuesAfterThrow ==
    \A e \in EIds : \A k \in TIds(e) : \A i \in FIds(e, k) :
        LET t == emits[e].tasks[k]
        IN  (Threw(t, i) /\ t.fr[i].nx = 0 /\ ChainSettled(t)) =>
                /\ (~emits[e].silent /\ t.race = "chain") =>
                      SeqHas(emits[e].errors, ErrorOf(k, MiddlewareErr(i)))
                /\ t.cb # "idle"
                /\ \A j \in FIds(e, k) : j > i => t.fr[j].st # "idle"

\* ------------------------------------------------------------------------
\* C12 - the timeout error
\* ------------------------------------------------------------------------

TimeoutErrors(e, k) == Count(emits[e].errors, ErrorOf(k, TimeoutErr))

\* C12: a chain that had not settled when the timer of its task fired has
\* exactly one timeout error in event.errors of a non-silent event (a chain
\* that settled first has none), its message names the topic of the
\* emission and the bound of the timer (the caller's options.timeout when
\* that is 50), and emit returns without waiting for the chain: once every
\* race is settled it can return, whatever the chains are doing.
C12_TimeoutRecorded ==
    \A e \in EIds :
        /\ \A k \in TIds(e) :
              IF emits[e].tasks[k].race = "timeout" /\ ~emits[e].silent
              THEN /\ TimeoutErrors(e, k) = 1
                   /\ TimeoutMessage(emits[e]).topic = emits[e].topic
                   /\ emits[e].options.timeout = 50 =>
                         TimeoutMessage(emits[e]).bound = 50
              ELSE TimeoutErrors(e, k) = 0
        /\ (emits[e].status = "pending"
              /\ \A k \in TIds(e) : emits[e].tasks[k].race # "pending")
              => ENABLED EmitReturn(e)

\* emit with timeout 50 returned with a timeout error while the chain of
\* the listener was still running.
C12_Witness ==
    \E e \in EIds : \E k \in TIds(e) :
        /\ emits[e].status = "resolved"
        /\ ~emits[e].silent
        /\ emits[e].options.timeout = 50
        /\ emits[e].tasks[k].race = "timeout"
        /\ ~ChainSettled(emits[e].tasks[k])
        /\ emits[e].tasks[k].cb = "run"
        /\ TimeoutErrors(e, k) = 1

\* ------------------------------------------------------------------------
\* C13 - emit returns
\* ------------------------------------------------------------------------

\* C13: with the event loop fair to timers and to settled promises, an emit
\* on a valid topic eventually returns its Event even when a listener or a
\* middleware it matched never settles: every race that is pending is
\* eventually settled, by its chain (which has then settled) or by its
\* timer, and an emission that is pending is eventually resolved.
C13_EmitEventuallyReturns ==
    \A e \in 1..TimeoutEmits :
        /\ [](e \in EIds =>
                \A k \in TIds(e) :
                    emits[e].tasks[k].race = "chain" =>
                        ChainSettled(emits[e].tasks[k]))
        /\ \A k \in 1..TimeoutListeners :
              (e \in EIds /\ k \in TIds(e)
                  /\ emits[e].tasks[k].race = "pending")
              ~> (e \in EIds /\ k \in TIds(e)
                  /\ emits[e].tasks[k].race \in {"chain", "timeout"})
        /\ (e \in EIds /\ emits[e].status = "pending")
              ~> (e \in EIds /\ emits[e].status = "resolved")

\* An emission that returned although a middleware of one chain never went
\* past its first statement, the other chain having settled in time.
C13_Witness ==
    \E e \in EIds : \E k1, k2 \in TIds(e) :
        /\ emits[e].status = "resolved"
        /\ emits[e].tasks[k1].race = "timeout"
        /\ emits[e].tasks[k1].fr # <<>>
        /\ emits[e].tasks[k1].fr[1].st = "pre"
        /\ emits[e].tasks[k2].race = "chain"

\* ------------------------------------------------------------------------
\* C14 - the bound of the timeout race
\* ------------------------------------------------------------------------

\* C14: the bound of the timer that the chains of an emission are raced
\* against is the timeout recorded in event.options.timeout: the caller's
\* options.timeout when given, 5000 ms when omitted.
C14_RaceBoundIsEventTimeout ==
    \A e \in EIds :
        emits[e].tasks # <<>> => emits[e].timeout = emits[e].options.timeout

\* ------------------------------------------------------------------------
\* C15 - emit on an invalid topic
\* ------------------------------------------------------------------------

\* C15 as stated: an invalid topic raises at the call itself, so that no
\* promise returned by emit is ever rejected.
C15_Original ==
    \A e \in EIds : emits[e].status # "rejected"

\* C15: emit called with a topic that fails the grammar (empty string,
\* empty segment, illegal character, any wildcard marker) returns a promise
\* that is rejected, with no listener invoked and nothing dispatched; emit
\* on a topic of the grammar is never rejected.
C15_InvalidTopicRejects ==
    \A e \in EIds :
        /\ emits[e].topic \in InvalidTopics => emits[e].status = "rejected"
        /\ emits[e].topic \in ValidTopics => emits[e].status # "rejected"
        /\ emits[e].status = "rejected" =>
              /\ ~isValidTopic(emits[e].topic)
              /\ emits[e].tasks = <<>>
              /\ emits[e].responses = <<>>
              /\ emits[e].errors = <<>>

\* emit on a topic with an empty segment is rejected although a listener
\* on ** is registered.
C15_Witness ==
    \E e \in EIds :
        /\ emits[e].topic = <<"a", ":", ":", "x">>
        /\ emits[e].status = "rejected"
        /\ \E l \in LIds :
              InRegistry(listeners, l) /\ lobjs[l].pattern = <<"*", "*">>

\* ------------------------------------------------------------------------
\* C16 - registration of an invalid pattern
\* ------------------------------------------------------------------------

\* The pattern passes the topic grammar once its wildcard markers are
\* replaced.
ValidPattern(pattern) == isValidTopic(ReplaceStars(pattern))

\* C16: a registration with an invalid pattern leaves the listener registry
\* exactly as it was, and one with a valid pattern adds its listener; so
\* the registry only ever holds valid patterns, every listener an emission
\* dispatches to is one whose pattern accepts the topic, and no emission on
\* a valid topic is rejected.
C16_InvalidPatternNotRegistered ==
    /\ [][\A p \in MatchPatterns :
            (Len(lobjs') = Len(lobjs) + 1 /\ lobjs'[Len(lobjs')].pattern = p) =>
                IF ValidPattern(p)
                THEN InRegistry(listeners', Len(lobjs'))
                ELSE listeners' = listeners]_vars
    /\ [](/\ \A b \in 1..Len(listeners) : ValidPattern(listeners[b].pattern)
          /\ \A l \in LIds :
                ~ValidPattern(lobjs[l].pattern) => ~InRegistry(listeners, l)
          /\ \A e \in EIds :
                /\ isValidTopic(emits[e].topic) => emits[e].status # "rejected"
                /\ \A k \in TIds(e) :
                      /\ ValidPattern(lobjs[emits[e].tasks[k].l].pattern)
                      /\ matchPattern(emits[e].topic,
                                      lobjs[emits[e].tasks[k].l].pattern))

\* A registration with an empty segment in its pattern left the registry
\* empty, and an emission on a valid topic then returned with no listener.
C16_Witness ==
    /\ \E l \in LIds : lobjs[l].pattern = <<"a", ":", ":", "x">>
    /\ listeners = <<>>
    /\ \E e \in EIds :
          /\ emits[e].topic = <<"a", ":", "x">>
          /\ emits[e].status = "resolved"
          /\ emits[e].tasks = <<>>

\* ------------------------------------------------------------------------
\* C17 - literal and * segments
\* ------------------------------------------------------------------------

\* The segments of a string: what the separator separates.
RECURSIVE Split(_)
Split(s) ==
    IF \A i \in 1..Len(s) : s[i] # ":" THEN << s >>
    ELSE LET k == CHOOSE i \in 1..Len(s) :
                      s[i] = ":" /\ \A j \in 1..(i - 1) : s[j] # ":"
         IN  << SubSeq(s, 1, k - 1) >> \o Split(Drop(s, k))

\* Every token of the pattern is a literal segment or *.
StarLiteral(pattern) ==
    /\ ValidPattern(pattern)
    /\ \A i \in 1..Len(Split(pattern)) :
          LET tok == Split(pattern)[i]
          IN  tok = <<"*">> \/ \A j \in 1..Len(tok) : tok[j] \in SegChars

\* Same number of segments, every literal segment equal to the topic's.
SegmentwiseMatch(pattern, topic) ==
    /\ Len(Split(pattern)) = Len(Split(topic))
    /\ \A i \in 1..Len(Split(pattern)) :
          Split(pattern)[i] = <<"*">> \/ Split(pattern)[i] = Split(topic)[i]

\* The emission was dispatched to the listener.
Dispatched(e, l) == \E k \in TIds(e) : emits[e].tasks[k].l = l

\* C17: an emission on a valid topic is dispatched to a registered listener
\* whose pattern is made of literal segments and * segments iff pattern and
\* topic have the same number of segments and every literal segment equals
\* the topic's segment at its position; so a:x receives only the topic a:x,
\* and * receives a but not a:x.
C17_StarMatchesOneSegment ==
    \A e \in EIds : \A l \in LIds :
        (isValidTopic(emits[e].topic) /\ InRegistry(listeners, l)
            /\ StarLiteral(lobjs[l].pattern)) =>
            /\ Dispatched(e, l)
                  <=> SegmentwiseMatch(lobjs[l].pattern, emits[e].topic)
            /\ lobjs[l].pattern = <<"a", ":", "x">> =>
                  (Dispatched(e, l) <=> emits[e].topic = <<"a", ":", "x">>)
            /\ lobjs[l].pattern = <<"*">> =>
                  (Dispatched(e, l) <=> Len(Split(emits[e].topic)) = 1)

\* The listener on a:*:x was called for the topic a:ax:x.
C17_Witness ==
    \E e \in EIds : \E k \in TIds(e) :
        /\ emits[e].topic = <<"a", ":", "a", "x", ":", "x">>
        /\ lobjs[emits[e].tasks[k].l].pattern = <<"a", ":", "*", ":", "x">>
        /\ emits[e].tasks[k].cb = "ok"

\* ------------------------------------------------------------------------
\* C18 - ** at the end or at the start of a pattern
\* ------------------------------------------------------------------------

Glob == <<"*", "*">>

\* The token is * or the segment itself.
TokenMatch(tok, seg) == tok = <<"*">> \/ tok = seg

\* The first (the last) segments of the topic are those of the tokens.
PrefixMatch(toks, segs) ==
    /\ Len(segs) >= Len(toks)
    /\ \A i \in 1..Len(toks) : TokenMatch(toks[i], segs[i])
SuffixMatch(toks, segs) ==
    /\ Len(segs) >= Len(toks)
    /\ \A i \in 1..Len(toks) :
          TokenMatch(toks[i], segs[Len(segs) - Len(toks) + i])

\* The pattern is tokens of literals and * followed (preceded) by one **.
TrailingGlob(pattern) ==
    LET toks == Split(pattern)
    IN  /\ Len(toks) >= 2
        /\ toks[Len(toks)] = Glob
        /\ StarLiteral(Join(SubSeq(toks, 1, Len(toks) - 1)))
LeadingGlob(pattern) ==
    LET toks == Split(pattern)
    IN  /\ Len(toks) >= 2
        /\ toks[1] = Glob
        /\ StarLiteral(Join(Tail(toks)))

\* C18: a ** at the end of a pattern stands for zero or more whole
\* segments after the tokens before it, a ** at the start for zero or more
\* whole segments before the tokens after it, and ** alone receives every
\* valid topic: a:** receives a, a:x, a:x:ax and not x:x; **:x receives x,
\* a:x, a:ax:x and not a:a.
C18_GlobAtEnds ==
    \A e \in EIds : \A l \in LIds :
        (isValidTopic(emits[e].topic) /\ InRegistry(listeners, l)) =>
            LET pattern == lobjs[l].pattern
                segs == Split(emits[e].topic)
            IN  /\ pattern = Glob => Dispatched(e, l)
                /\ TrailingGlob(pattern) =>
                      (Dispatched(e, l) <=>
                          PrefixMatch(SubSeq(Split(pattern), 1,
                                             Len(Split(pattern)) - 1), segs))
                /\ LeadingGlob(pattern) =>
                      (Dispatched(e, l) <=>
                          SuffixMatch(Tail(Split(pattern)), segs))
                /\ pattern = <<"a", ":", "*", "*">> =>
                      (Dispatched(e, l) <=> segs[1] = <<"a">>)
                /\ pattern = <<"*", "*", ":", "x">> =>
                      (Dispatched(e, l) <=> segs[Len(segs)] = <<"x">>)

\* The listener on a:** was called for the topic a, with no segment for
\* the ** to stand for.
C18_Witness ==
    \E e \in EIds : \E k \in TIds(e) :
        /\ emits[e].topic = <<"a">>
        /\ lobjs[emits[e].tasks[k].l].pattern = <<"a", ":", "*", "*">>
        /\ emits[e].tasks[k].cb = "ok"

\* ------------------------------------------------------------------------
\* C19 - ** between two tokens
\* ------------------------------------------------------------------------

\* C19: a ** between two tokens stands for zero or more segments: the
\* listener on a:**:x receives exactly the valid topics that start with the
\* segment a, end with the segment x and have at least these two segments
\* (a:x, a:a:x, a:x:a:x, not a:a).
C19_InteriorGlobMatchesZero ==
    \A e \in EIds : \A l \in LIds :
        (isValidTopic(emits[e].topic) /\ InRegistry(listeners, l)
            /\ lobjs[l].pattern = <<"a", ":", "*", "*", ":", "x">>) =>
            LET segs == Split(emits[e].topic)
            IN  Dispatched(e, l) <=>
                    /\ Len(segs) >= 2
                    /\ segs[1] = <<"a">>
                    /\ segs[Len(segs)] = <<"x">>

\* ------------------------------------------------------------------------
\* C20 - the ++ marker
\* ------------------------------------------------------------------------

Plus == <<"+", "+">>

\* C20: a pattern of literal, * and ++ tokens can be registered, and its ++
\* stands for one or more segments: the listener on a:++ receives exactly
\* the valid topics of two or more segments that start with a (a:x, a:x:x,
\* not a), the listener on a:++:x those of three or more segments that
\* start with a and end with x (a:x:x, not a:x).
C20_PlusMatchesOneOrMore ==
    \A l \in LIds :
        (lobjs[l].pattern \in TokenPatterns
            /\ \E i \in 1..Len(Split(lobjs[l].pattern)) :
                  Split(lobjs[l].pattern)[i] = Plus
            /\ \A j \in 1..Len(Split(lobjs[l].pattern)) :
                  Split(lobjs[l].pattern)[j] # Glob) =>
            /\ InRegistry(listeners, l)
            /\ \A e \in EIds :
                  isValidTopic(emits[e].topic) =>
                      LET segs == Split(emits[e].topic)
                      IN  /\ lobjs[l].pattern = <<"a", ":", "+", "+">> =>
                                (Dispatched(e, l) <=>
                                    Len(segs) >= 2 /\ segs[1] = <<"a">>)
                          /\ lobjs[l].pattern
                                = <<"a", ":", "+", "+", ":", "x">> =>
                                (Dispatched(e, l) <=>
                                    /\ Len(segs) >= 3
                                    /\ segs[1] = <<"a">>
                                    /\ segs[Len(segs)] = <<"x">>)

\* ------------------------------------------------------------------------
\* C21 - an emission that matches no listener
\* ------------------------------------------------------------------------

\* No pattern of the registry accepts the topic.
NoMatch(reg, topic) ==
    \A b \in 1..Len(reg) : ~matchPattern(topic, reg[b].pattern)

Bucket(reg, pattern) ==
    IF BucketOf(reg, pattern) = 0 THEN {}
    ELSE { l \in LIds : SeqHas(reg[BucketOf(reg, pattern)].set, l) }

\* C22: off(pattern) takes out of the registry every listener registered
\* under exactly that pattern string and nothing else: the bucket of every
\* other pattern string, one that matches the same topics included, holds
\* the same listeners in the same order, and an emission resolves to the
\* listeners it resolved to before less those of the removed bucket.
C22_OffRemovesOneBucket ==
    [][\A p \in ListenerPatterns :
          Off(p) =>
              /\ BucketOf(listeners', p) = 0
              /\ \A l \in LIds :
                    lobjs[l].pattern = p => ~InRegistry(listeners', l)
              /\ \A q \in ListenerPatterns \ {p} :
                    /\ Bucket(listeners', q) = Bucket(listeners, q)
                    /\ BucketOf(listeners, q) # 0 =>
                          /\ BucketOf(listeners', q) # 0
                          /\ listeners'[BucketOf(listeners', q)]
                                = listeners[BucketOf(listeners, q)]
              /\ \A t \in Topics :
                    Resolve(listeners', t)
                        = SelectSeq(Resolve(listeners, t),
                                    LAMBDA l : lobjs[l].pattern # p)]_vars

\* off took the second listener out while the first, registered under
\* another pattern that matches the same topic, stayed in the registry
\* without ever leaving it.
C22_Witness ==
    /\ Len(lobjs) = 2
    /\ lobjs[1].pattern # lobjs[2].pattern
    /\ matchPattern(S_a, lobjs[1].pattern)
    /\ matchPattern(S_a, lobjs[2].pattern)
    /\ lobjs[2].by = "off"
    /\ ~InRegistry(listeners, 2)
    /\ lobjs[1].by = "none"
    /\ InRegistry(listeners, 1)

\* ------------------------------------------------------------------------
\* C23 - Listener.destroy
\* ------------------------------------------------------------------------

\* The listeners of the registry, bucket by bucket.
Registered(reg) == { l \in LIds : InRegistry(reg, l) }

\* C23: destroy can always be called; on a listener of the registry it
\* removes that listener and no other, and the bucket with it when it was
\* the bucket's last; on a listener that is not in the registry (destroyed
\* before, or removed by off or removeAllListeners) it leaves the registry
\* unchanged.  The registry never holds an empty bucket.
C23_DestroyIdempotent ==
    /\ [][\A l \in LIds :
            Destroy(l) =>
                IF InRegistry(listeners, l)
                THEN /\ Registered(listeners') = Registered(listeners) \ {l}
                     /\ Bucket(listeners', lobjs[l].pattern)
                           = Bucket(listeners, lobjs[l].pattern) \ {l}
                     /\ (Bucket(listeners, lobjs[l].pattern) = {l}) =>
                           /\ BucketOf(listeners', lobjs[l].pattern) = 0
                           /\ Len(listeners') = Len(listeners) - 1
                     /\ (Bucket(listeners, lobjs[l].pattern) # {l}) =>
                           Len(listeners') = Len(listeners)
                ELSE listeners' = listeners]_vars
    /\ [](/\ \A b \in 1..Len(listeners) : listeners[b].set # <<>>
          /\ \A l \in LIds : ENABLED Destroy(l))

\* A listener registered with once and a timer was removed by off, its
\* pattern registered again by another listener, and it was destroyed
\* afterwards (its timer is cleared): the new bucket is intact.
C23_Witness ==
    \E l \in LIds :
        /\ lobjs[l].limit = 1
        /\ lobjs[l].by = "off"
        /\ ~lobjs[l].timer
        /\ ~InRegistry(listeners, l)
        /\ Bucket(listeners, lobjs[l].pattern) # {}

\* ------------------------------------------------------------------------
\* C24 - destroying a middleware twice
\* ------------------------------------------------------------------------

\* C24: a destroy call on a middleware that is already destroyed does not
\* throw: no destroy call ever runs into an error.
C24_SecondDestroyNoThrow ==
    \A m \in 1..Len(mobjs) : ~mobjs[m].threw

\* ------------------------------------------------------------------------
\* C25 - autodestroy.timeout
\* ------------------------------------------------------------------------

\* The .finally handler of a call of listener l runs in this step.
CallEnds(l) ==
    \E e \in EIds : \E k \in TIds(e) :
        /\ emits[e].tasks[k].l = l
        /\ emits[e].tasks[k].cb = "run"
        /\ emits'[e].tasks[k].cb = "ok"

\* C25: the autodestroy timer of a listener, when it fires, takes the
\* listener and nothing else out of the registry, whether or not anything
\* was emitted, and a listener whose timer is armed is eventually out of
\* the registry.  With a call threshold as well, the first of the two to
\* come removes the listener: a listener whose counter has reached the
\* threshold is out of the registry with its timer cleared, and for a
\* listener already out of the registry neither the timer firing nor a call
\* ending changes the registry.
C25_TimerRemovesListener ==
    /\ [][\A l \in LIds :
            /\ TimerFire(l) =>
                  /\ ~InRegistry(listeners', l)
                  /\ Registered(listeners') = Registered(listeners) \ {l}
            /\ ((TimerFire(l) \/ CallEnds(l)) /\ ~InRegistry(listeners, l))
                  => listeners' = listeners]_vars
    /\ [](\A l \in LIds :
            /\ (lobjs[l].limit > 0 /\ lobjs[l].calls >= lobjs[l].limit) =>
                  ~InRegistry(listeners, l) /\ ~lobjs[l].timer
            /\ lobjs[l].by \in {"calls", "timer", "destroy"} =>
                  ~lobjs[l].timer)
    /\ \A l \in 1..RegistryListeners :
          (l \in LIds /\ lobjs[l].timer /\ InRegistry(listeners, l))
              ~> (l \in LIds /\ ~InRegistry(listeners, l))

\* The timer of a listener registered with once and a timeout fired during
\* a call of the listener, and the call then ended and was counted, while
\* another listener stays registered.
C25_Witness ==
    \E l \in LIds :
        /\ lobjs[l].limit = 1
        /\ lobjs[l].by = "timer"
        /\ lobjs[l].calls = 1
        /\ ~InRegistry(listeners, l)
        /\ listeners # <<>>

\* ------------------------------------------------------------------------
\* C26 - silent events
\* ------------------------------------------------------------------------

\* C26: the responses and the errors of an event created with
\* options.silent = true are empty in every state, whatever its listeners
\* return or throw, its middleware respond or throw, and whether or not its
\* tasks time out.
C26_SilentEventStaysEmpty ==
    \A e \in EIds :
        emits[e].silent =>
            /\ emits[e].responses = <<>>
            /\ emits[e].errors = <<>>

\* A silent emission has returned after one listener returned a value, the
\* other failed or timed out, and a middleware called respond: the event
\* holds nothing.
C26_Witness ==
    \E e \in EIds :
        /\ emits[e].silent
        /\ emits[e].status = "resolved"
        /\ emits[e].responses = <<>>
        /\ emits[e].errors = <<>>
        /\ \E k1, k2 \in TIds(e) :
              /\ emits[e].tasks[k1].cb = "ok"
              /\ emits[e].tasks[k1].res = "ok"
              /\ \/ Failed(emits[e].tasks[k2])
                 \/ emits[e].tasks[k2].race = "timeout"
              /\ \E i \in FIds(e, k2) : emits[e].tasks[k2].fr[i].resp

\* ------------------------------------------------------------------------
\* C27 - the ceiling of the pattern cache
\* ------------------------------------------------------------------------

\* C27: the compiled-pattern cache never holds more entries than its
\* ceiling, whatever patterns are registered, emitted to and passed to
\* matchesPattern.
C27_CacheBounded == Cardinality(patternCache) <= CacheCeiling

\* ------------------------------------------------------------------------
\* C28 - the order of the listeners of an emission
\* ------------------------------------------------------------------------

\* The registration that created the bucket a registered listener is in.
BucketFirst(reg, l) == reg[BucketOf(reg, lobjs[l].pattern)].first

\* Registry order: by the registration that created the bucket (a pattern
\* whose bucket was removed is first registered again by the next on),
\* then by the listener's own registration.
Before(reg, l1, l2) ==
    \/ BucketFirst(reg, l1) < BucketFirst(reg, l2)
    \/ BucketFirst(reg, l1) = BucketFirst(reg, l2) /\ l1 < l2

\* C28: the chains an emit starts are those of the registered listeners
\* whose pattern matches, each once, in registry order; and when the
\* callbacks return their value synchronously and no middleware is
\* registered, event.responses holds the responses in the order of the
\* chains.
C28_RegistryOrder ==
    /\ [][(Len(emits') = Len(emits) + 1
             /\ isValidTopic(emits'[Len(emits')].topic)) =>
            LET ts == emits'[Len(emits')].tasks
            IN  /\ { ts[k].l : k \in 1..Len(ts) }
                      = { l \in Registered(listeners) :
                            matchPattern(emits'[Len(emits')].topic,
                                         lobjs[l].pattern) }
                /\ \A j, k \in 1..Len(ts) :
                      j < k => Before(listeners, ts[j].l, ts[k].l)]_vars
    /\ [](\A e \in EIds :
            \A i, j \in 1..Len(emits[e].responses) :
                i < j => emits[e].responses[i].task
                            < emits[e].responses[j].task)

\* Three listeners responded, the third registered under the pattern of the
\* first: its response comes before that of the second.
C28_Witness ==
    \E e \in EIds :
        /\ Len(emits[e].responses) = 3
        /\ emits[e].tasks[1].l = 1
        /\ emits[e].tasks[2].l = 3
        /\ emits[e].tasks[3].l = 2
        /\ \A k \in 1..3 : emits[e].responses[k].task = k

\* ------------------------------------------------------------------------
\* C29 - the timeout timer of a chain that settled
\* ------------------------------------------------------------------------

\* C29: once emit has returned, no timeout timer that the emission created
\* is still to fire: the timer of a chain that settled before its timeout
\* has been cancelled.
C29_NoTimerAfterReturn ==
    \A e \in EIds :
        emits[e].status = "resolved" =>
            \A k \in TIds(e) : ~emits[e].tasks[k].timer

\* ------------------------------------------------------------------------
\* C30 - the autodestroy timer of a removed listener
\* ------------------------------------------------------------------------

\* C30: a listener that was registered and is no longer in the registry
\* has no armed autodestroy timer, whether destroy, the call threshold, off
\* or removeAllListeners removed it.
C30_RemovedListenerHasNoTimer ==
    \A l \in LIds :
        (lobjs[l].by # "none" /\ ~InRegistry(listeners, l)) =>
            ~lobjs[l].timer

\* ------------------------------------------------------------------------
\* C31 - a chain that lost the race to its timeout
\* ------------------------------------------------------------------------

\* C31: once emit has returned, no step changes the responses or the errors
\* of its event, and a chain whose task was settled by the timeout adds no
\* entry of its own to either of them afterwards.
C31_TimedOutChainWritesNothing ==
    [][\A e \in EIds :
          /\ emits[e].status = "resolved" =>
                /\ emits'[e].responses = emits[e].responses
                /\ emits'[e].errors = emits[e].errors
          /\ \A k \in TIds(e) :
                emits[e].tasks[k].race = "timeout" =>
                    /\ \A i \in 1..Len(emits'[e].responses) :
                          emits'[e].responses[i].task = k =>
                              i <= Len(emits[e].responses)
                    /\ \A i \in 1..Len(emits'[e].errors) :
                          emits'[e].errors[i].task = k =>
                              i <= Len(emits[e].errors)]_vars

\* ------------------------------------------------------------------------
\* C32 - one Event per emission
\* ------------------------------------------------------------------------

\* C32: every emit call adds exactly one event, whatever the number of its
\* chains; what a middleware or a listener of a chain finds in the context
\* is everything the chains of the same emission have set so far, another
\* chain's values included, and nothing another emission has set; and the
\* responses of an event are those of the chains of its own emission, all
\* of them once emit has returned.
C32_OneEventPerEmit ==
    /\ [][/\ Len(emits') \in {Len(emits), Len(emits) + 1}
          /\ \A e \in EIds : \A k \in TIds(e) :
                EventGet(e, k) =>
                    emits'[e].tasks[k].seen = emits[e].context]_vars
    /\ [](\A e \in EIds :
            /\ \A x \in emits[e].context : x[1] = e /\ x[2] \in TIds(e)
            /\ \A k \in TIds(e) :
                  emits[e].tasks[k].seen \subseteq emits[e].context
            /\ \A i \in 1..Len(emits[e].responses) :
                  emits[e].responses[i].task \in TIds(e)
            /\ emits[e].status = "resolved" =>
                  \A k \in TIds(e) : CallbackResponses(e, k) = 1)

\* In the second of two emissions the second chain has found the value set
\* by the first chain and not yet one of its own, and none of those that
\* both chains of the first emission had set.
C32_Witness ==
    /\ Len(emits) = 2
    /\ emits[1].context = {<<1, 1>>, <<1, 2>>}
    /\ Len(emits[2].tasks) = 2
    /\ emits[2].tasks[2].seen = {<<2, 1>>}

\* ------------------------------------------------------------------------
\* C33 - middleware patterns against listener patterns
\* ------------------------------------------------------------------------

\* C33: a middleware registered under a pattern that on accepts is in the
\* chains of an emission on a valid topic exactly when matchesPattern
\* accepts the topic for that pattern: the middleware on a:** applies to
\* the topic a, the one on **:x to the topic x.
C33_MiddlewareMatchesLikeListener ==
    \A e \in EIds : \A k \in TIds(e) : \A m \in 1..Len(mobjs) :
        (ValidPattern(mobjs[m].pattern) /\ isValidTopic(emits[e].topic)) =>
            (SeqHas(emits[e].tasks[k].mws, m)
                <=> matchPattern(emits[e].topic, mobjs[m].pattern))

\* ------------------------------------------------------------------------
\* C34 - middleware invocations per emission
\* ------------------------------------------------------------------------

\* How many times chain k of emission e has invoked middleware m.
MwInvoked(e, k, m) ==
    LET t == emits[e].tasks[k]
    IN  Cardinality({ j \in 1..Len(t.log) :
                        /\ t.log[j].ev = "pre"
                        /\ t.mws[t.log[j].pos] = m })

\* C34: every chain of an emission is made of the registered middleware
\* whose pattern matches the topic, each once, and the chains are those of
\* distinct listeners; a chain invokes a middleware of its own at most once
\* and no other, and exactly once when every middleware of the chain has
\* called next() once: with L listeners a matching middleware is invoked L
\* times.  An emission with no listener invokes nothing.
C34_MiddlewareOncePerChain ==
    /\ [][(Len(emits') = Len(emits) + 1
             /\ isValidTopic(emits'[Len(emits')].topic)) =>
            \A k \in 1..Len(emits'[Len(emits')].tasks) :
                emits'[Len(emits')].tasks[k].mws
                    = SelectSeq(middlewares,
                          LAMBDA m : matches(mobjs[m].pattern,
                                             emits'[Len(emits')].topic))]_vars
    /\ [](\A e \in EIds : \A k \in TIds(e) :
            LET t == emits[e].tasks[k]
            IN  /\ \A k2 \in TIds(e) : k2 # k => emits[e].tasks[k2].l # t.l
                /\ \A i, j \in 1..Len(t.mws) : i # j => t.mws[i] # t.mws[j]
                /\ \A m \in 1..Len(mobjs) :
                      /\ MwInvoked(e, k, m) <= 1
                      /\ ~SeqHas(t.mws, m) => MwInvoked(e, k, m) = 0
                      /\ (SeqHas(t.mws, m)
                            /\ \A i \in 1..Len(t.fr) : t.fr[i].nx = 1) =>
                            MwInvoked(e, k, m) = 1)

\* Both chains of an emission with two listeners have run through two
\* middleware that called next() once and returned.
C34_Witness ==
    \E e \in EIds :
        /\ emits[e].status = "resolved"
        /\ Len(emits[e].tasks) = 2
        /\ \A k \in TIds(e) :
              /\ Len(emits[e].tasks[k].mws) = 2
              /\ \A i \in 1..2 :
                    /\ emits[e].tasks[k].fr[i].nx = 1
                    /\ emits[e].tasks[k].fr[i].st = "ok"
              /\ \A m \in 1..2 : MwInvoked(e, k, m) = 1

\* ------------------------------------------------------------------------
\* C35 - repeated next()
\* ------------------------------------------------------------------------

\* How many times chain k of emission e has invoked the listener callback.
CbInvoked(e, k) ==
    LET t == emits[e].tasks[k]
    IN  Cardinality({ j \in 1..Len(t.log) : t.log[j].ev = "cb" })

\* C35: however many times its middleware call next(), a chain invokes the
\* callback of its listener at most once and each of its middleware at most
\* once.
C35_AtMostOncePerChain ==
    \A e \in EIds : \A k \in TIds(e) :
        /\ CbInvoked(e, k) <= 1
        /\ \A m \in 1..Len(mobjs) : MwInvoked(e, k, m) <= 1


\* ------------------------------------------------------------------------
\* C36 - the shape of the listener registry
\* ------------------------------------------------------------------------

\* The buckets that hold a listener.
BucketsHolding(reg, l) == { b \in 1..Len(reg) : SeqHas(reg[b].set, l) }

\* C36: in every reachable state every bucket of the registry holds at
\* least one listener, the keys of the registry are distinct, a listener
\* is in at most one bucket, once, and that bucket is keyed by the
\* listener's own pattern string; so the registry has no key exactly when
\* no listener is registered.
C36_RegistryShape ==
    /\ \A b \in 1..Len(listeners) : listeners[b].set # <<>>
    /\ \A b, c \in 1..Len(listeners) :
          listeners[b].pattern = listeners[c].pattern => b = c
    /\ \A l \in LIds :
          /\ Cardinality(BucketsHolding(listeners, l)) <= 1
          /\ \A b \in BucketsHolding(listeners, l) :
                /\ listeners[b].pattern = lobjs[l].pattern
                /\ Count(listeners[b].set, l) = 1
    /\ (Len(listeners) = 0) <=> (Registered(listeners) = {})

\* Two listeners shared a bucket; one was destroyed and the other is still
\* in it, and later the bucket went with its last listener.
C36_Witness ==
    /\ Len(lobjs) = 2
    /\ lobjs[1].pattern = lobjs[2].pattern
    /\ lobjs[1].by = "destroy"
    /\ lobjs[2].by = "timer"
    /\ listeners = <<>>


\* ------------------------------------------------------------------------
\* C37 - a rejected registration
\* ------------------------------------------------------------------------

\* C37: a call of on whose pattern fails validation leaves no trace: the
\* registry is unchanged, the listener built for the call has no
\* autodestroy timer armed, and the autodestroy.calls of the options
\* object the caller passed (which the listener shares) is what the caller
\* wrote.
C37_RejectedRegistrationLeavesNoTrace ==
    [][\A p \in RejectPatterns, o \in RejectOptions :
          (On(p, o) /\ ~ValidPattern(p)) =>
              /\ listeners' = listeners
              /\ ~lobjs'[Len(lobjs')].timer
              /\ lobjs'[Len(lobjs')].limit = o.calls]_vars


\* ------------------------------------------------------------------------
\* C38 - what a destroy removes
\* ------------------------------------------------------------------------

\* The call of Listener.call that has just ended takes its listener to the
\* autodestroy threshold.
CallDestroys(l) ==
    /\ lobjs'[l].calls = lobjs[l].calls + 1
    /\ lobjs[l].limit > 0
    /\ lobjs'[l].calls >= lobjs[l].limit

\* The registry after the step is the registry before it less listener l:
\* every bucket holds the same listeners in the same order, l apart, and a
\* bucket is gone only if l was alone in it.
RemovesOnly(l) ==
    /\ Registered(listeners') = Registered(listeners) \ {l}
    /\ \A b \in 1..Len(listeners) :
          IF listeners[b].set = <<l>>
          THEN BucketOf(listeners', listeners[b].pattern) = 0
          ELSE /\ BucketOf(listeners', listeners[b].pattern) # 0
               /\ listeners'[BucketOf(listeners', listeners[b].pattern)].set
                     = SeqRemove(listeners[b].set, l)
    /\ \A m \in Registered(listeners) \ {l} :
          m \in Bucket(listeners', lobjs[m].pattern)

\* C38: a destroy of listener l, called by the application, by the call
\* threshold or by the autodestroy timer, removes l and nothing else; when
\* l is no longer in the registry (off dropped its bucket) and its pattern
\* has been registered again, the new bucket keeps all its listeners.
C38_DestroyRemovesOnlyItself ==
    [][\A l \in LIds :
          (Destroy(l) \/ TimerFire(l) \/ CallDestroys(l)) =>
              /\ RemovesOnly(l)
              /\ (~InRegistry(listeners, l)) => listeners' = listeners]_vars

\* The second listener was destroyed by its timer while the first, which
\* has been in the registry since its registration, shared its bucket.
C38_Witness ==
    /\ Len(lobjs) = 2
    /\ lobjs[1].pattern = lobjs[2].pattern
    /\ lobjs[2].by = "timer"
    /\ lobjs[1].by = "none"
    /\ listeners = << [pattern |-> lobjs[1].pattern, set |-> <<1>>,
                       first |-> 1] >>


\* ------------------------------------------------------------------------
\* C39 - a middleware destroyed during an emission
\* ------------------------------------------------------------------------

\* C39: a middleware destroyed while an emission is in flight never makes
\* a chain fail: no chain that selected the middleware ends a call of next
\* with the error of calling its callback, and no such error is recorded
\* in event.errors.
C39_DestroyInFlightHarmless ==
    \A e \in EIds :
        /\ \A j \in 1..Len(emits[e].errors) : emits[e].errors[j].kind # "type"
        /\ \A k \in TIds(e) : \A i \in FIds(e, k) :
              emits[e].tasks[k].fr[i].err.kind # "type"

====
